---- MODULE Spec2Model ----
(***************************************************************************)
(* Model of on_device_training/desktop/python/mnist.ipynb: the notebook's  *)
(* code cells executed top to bottom (an uncaught exception ends the run). *)
(* The training runtime (CheckpointState, Module, Optimizer,               *)
(* InferenceSession) is an opaque collaborator: each call into it either   *)
(* returns or raises, a returned loss is an arbitrary value, and its       *)
(* observable state is the parameter version, the gradient buffer state    *)
(* and the train/eval mode.                                                *)
(***************************************************************************)
EXTENDS Integers, Sequences, FiniteSets, TLC

(* ---------------------------------------------------------------- bounds *)

\* Number of batches train_loader yields per pass (938 in the notebook:
\* 60000 samples in batches of 64).
NumTrainBatches == 2

\* Number of batches test_loader yields per pass (10 in the notebook).
NumTestBatches == 1

\* Per-batch loss values are drawn from 0..MaxLoss.
MaxLoss == 1

(* ------------------------------------------------------- program constants *)

\* for epoch in range(5)
NumEpochs == 5

\* pt_model returns one tensor, wrapped into a one-element list.
NumModelOutputs == 1

LossValues == 0..MaxLoss

Range(s) == {s[i] : i \in 1..Len(s)}

(* ------------------------------------------------------------ the program *)

\* The code cells that change state, in notebook order; each name is also
\* the pc of the cell's first statement.
CellsEpochLoopFirst ==
    <<"export_forward", "build_graphs", "save_artifacts", "load_data",
      "epoch_loop", "init", "export_inference", "run_inference">>

Cells ==
    <<"export_forward", "build_graphs", "save_artifacts", "load_data",
      "init", "epoch_loop", "export_inference", "run_inference">>

\* The pc after the last statement of cell c.
NextCell(c) ==
    LET i == CHOOSE k \in 1..Len(Cells) : Cells[k] = c
    IN  IF i < Len(Cells) THEN Cells[i + 1] ELSE "done"

\* f"output-{i}" (a name is modelled as <<prefix, index>>).
OutputNameOneBased(i) == <<"output", i + 1>>

OutputName(i) == <<"output", i>>

\* The literal ["output-0"] passed to export_model_for_inferencing.
ExportRequest == << <<"output", 0>> >>

\* The statements of train()'s loop body, in order.
TrainBodyNoReset == <<"fwd", "step", "append">>

TrainBodyResetFirst == <<"fwd", "reset", "step", "append">>

TrainBodyStepFirst == <<"step", "fwd", "reset", "append">>

TrainBody == <<"fwd", "step", "reset", "append">>

\* The statements of test()'s loop body, in order.
TestBodyWithStep == <<"fwd", "step", "reset", "metric", "append">>

TestBody == <<"fwd", "metric", "append">>

Body(f) == IF f = "train" THEN TrainBody ELSE TestBody

\* The loader each loop enumerates.
TrainLoopLoader == "train_loader"

TestLoopLoaderHeldOut == "test_loader"

TestLoopLoader == "train_loader"

LoopLoader(f) == IF f = "train" THEN TrainLoopLoader ELSE TestLoopLoader

\* Batches a loader yields in one pass (no shuffling: the same batches,
\* in the same order, on every pass).
BatchesOf(loader) ==
    IF loader = "train_loader" THEN NumTrainBatches ELSE NumTestBatches

\* losses = [] at the top of train() and test().
NewLossesCarriedOver(old) == old

NewLosses(old) == <<>>

\* Python's sum(): a left fold that starts from 0.
RECURSIVE SumSeq(_)
SumSeq(s) ==
    IF s = <<>> THEN 0
    ELSE SumSeq(SubSeq(s, 1, Len(s) - 1)) + s[Len(s)]

\* The files save_artifacts writes and init reads.
CheckpointFile == "data/checkpoint.ckpt"
TrainingFile == "data/training_model.onnx"
OptimizerFile == "data/optimizer.onnx"
EvalFile == "data/eval_model.onnx"
InferenceFile == "data/inference_model.onnx"

VARIABLES
    pc,               \* the statement about to execute
    fn,               \* the function being executed: "none", "train", "test"
    ip,               \* index into Body(fn) of the statement about to execute
    epoch,            \* the epoch loop's variable (-1: not yet bound)
    batch_idx,        \* the batch loop's variable (-1: not yet bound)
    it,               \* the batch loop's iterator: [loader, pos]
    losses,           \* the local list `losses`
    loss,             \* train_loss / test_loss of the current batch
    logits,           \* how many labels get_pred(logits) gets right (0 or 1)
    out,              \* the last line an epoch printed
    metric,           \* the accuracy aggregator: [n, hits]
    files,            \* the artifact files on disk
    output_names,     \* the list output_names
    graph_outputs,    \* onnx_model.graph.output
    eval_outputs,     \* the eval graph's declared outputs
    state,            \* TRUE once CheckpointState is loaded
    model,            \* TRUE once the Module is constructed
    optimizer,        \* what the name `optimizer` is bound to
    mode,             \* the Module's mode: "train" or "eval"
    params,           \* version of the checkpoint parameters
    grad,             \* gradient buffers: "clean", "accumulated", "applied"
    inference_outputs,\* the exported inference graph's declared outputs
    session_outputs,  \* session.get_outputs()
    requested,        \* the names handed to session.run
    error,            \* the exception that ended the run
    \* history of the calls into the runtime
    lastCall,         \* the most recent call: what, by whom, in which state
    calls,            \* number of calls, per caller and operation
    resetsSinceStep,  \* reset_grad calls since the last optimizer.step call
    fwdDone,          \* number of train()'s forward calls that returned
    lastFwdOk,        \* <<epoch, batch>> of the last of them
    lastStep,         \* <<epoch, batch>> of the last optimizer.step call
    returned,         \* the losses the runtime returned in the current epoch
    iters,            \* iterators created, per loader and consumer
    fetched,          \* batches fetched, per loader
    paramsAtEntry     \* params when the running function was entered

locals == <<fn, ip, epoch, batch_idx, it, losses, loss, logits, out, metric>>
artVars == <<files, output_names, graph_outputs, eval_outputs,
             inference_outputs, session_outputs, requested>>
rtVars == <<state, model, optimizer, mode, params, grad>>
histRest == <<resetsSinceStep, fwdDone, lastFwdOk, lastStep, returned,
              iters, fetched, paramsAtEntry>>
vars == <<pc, locals, artVars, rtVars, lastCall, calls, histRest, error>>

Callers == {"none", "train", "test"}
Consumers == {"train", "test", "inference"}
Loaders == {"train_loader", "test_loader"}
Ops == {"load", "module", "optimizer", "fwd", "step", "reset", "export",
        "session", "run"}

NoError == [kind |-> "none", op |-> "none", who |-> "none",
            epoch |-> -1, batch |-> -1]
NoCall == [op |-> "none", who |-> "none", mode |-> "none", epoch |-> -1,
           batch |-> -1, ok |-> TRUE, grad |-> "none", loader |-> "none",
           resets |-> 0, steps |-> 0, loaded |-> FALSE]
NoOut == [who |-> "none", epoch |-> 0, num |-> 0, den |-> 1,
          hits |-> 0, total |-> 0]

Init ==
    /\ pc = Cells[1]
    /\ fn = "none"
    /\ ip = 0
    /\ epoch = -1
    /\ batch_idx = -1
    /\ it = [loader |-> "none", pos |-> 0]
    /\ losses = <<>>
    /\ loss = 0
    /\ logits = 0
    /\ out = NoOut
    /\ metric = [n |-> 0, hits |-> 0]
    /\ files = {}
    /\ output_names = <<>>
    /\ graph_outputs = <<>>
    /\ eval_outputs = <<>>
    /\ state = FALSE
    /\ model = FALSE
    /\ optimizer = "none"
    /\ mode = "train"
    /\ params = 0
    /\ grad = "clean"
    /\ inference_outputs = <<>>
    /\ session_outputs = <<>>
    /\ requested = <<>>
    /\ error = NoError
    /\ lastCall = NoCall
    /\ calls = [c \in Callers \X Ops |-> 0]
    /\ resetsSinceStep = 0
    /\ fwdDone = 0
    /\ lastFwdOk = <<-1, -1>>
    /\ lastStep = <<-1, -1>>
    /\ returned = [epoch |-> -1, train |-> <<>>, test |-> <<>>]
    /\ iters = [c \in Consumers \X Loaders |-> 0]
    /\ fetched = [l \in Loaders |-> 0]
    /\ paramsAtEntry = 0

(* ------------------------------------------------- calls into the runtime *)

\* Whether state, model and optimizer are the objects cell "init" creates.
Loaded == state /\ model /\ optimizer = "Optimizer"

\* optimizer.step() calls made so far.
StepCalls == calls[<<"train", "step">>] + calls[<<"test", "step">>]

\* A call of op by who is made: it becomes the most recent call.
Call(op, who, ok) ==
    /\ lastCall' = [op |-> op, who |-> who, mode |-> mode, epoch |-> epoch,
                    batch |-> batch_idx, ok |-> ok, grad |-> grad,
                    loader |-> it.loader, resets |-> resetsSinceStep,
                    steps |-> StepCalls, loaded |-> Loaded]
    /\ calls' = [calls EXCEPT ![<<who, op>>] = @ + 1]

\* An exception nobody catches: it leaves the function, the epoch loop and
\* the cell, and the run ends.
RaiseAndRetry(kind, op, who) ==
    /\ pc' = pc
    /\ error' = [kind |-> kind, op |-> op, who |-> who, epoch |-> epoch,
                 batch |-> batch_idx]

Raise(kind, op, who) ==
    /\ pc' = "aborted"
    /\ error' = [kind |-> kind, op |-> op, who |-> who, epoch |-> epoch,
                 batch |-> batch_idx]

\* The call of op by who raises.
Fail(kind, op, who) ==
    /\ Raise(kind, op, who)
    /\ Call(op, who, FALSE)
    /\ UNCHANGED <<locals, artVars, rtVars, histRest>>

(* ---------------------------------------------------------- offline cells *)

\* Lines 124-163: name the outputs and export the forward graph.
ExportForward ==
    /\ pc = "export_forward"
    /\ output_names' = [i \in 1..NumModelOutputs |-> OutputName(i - 1)]
    /\ graph_outputs' = output_names'
    /\ pc' = NextCell("export_forward")
    /\ UNCHANGED <<locals, files, eval_outputs, inference_outputs,
                   session_outputs, requested, rtVars, lastCall, calls,
                   histRest, error>>

\* Lines 199-211: ModelWithLoss.build returns (loss, output_name), the eval
\* graph's outputs; `optimizer` is bound to the AdamW block.
BuildGraphs ==
    /\ pc = "build_graphs"
    /\ eval_outputs' = << <<"loss", 0>>, graph_outputs[1] >>
    /\ optimizer' = "onnxblock.AdamW"
    /\ pc' = NextCell("build_graphs")
    /\ UNCHANGED <<locals, files, output_names, graph_outputs,
                   inference_outputs, session_outputs, requested, state,
                   model, mode, params, grad, lastCall, calls, histRest,
                   error>>

\* Lines 220-225.
SaveArtifacts ==
    /\ pc = "save_artifacts"
    /\ files' = files \cup {CheckpointFile, TrainingFile, OptimizerFile,
                            EvalFile}
    /\ pc' = NextCell("save_artifacts")
    /\ UNCHANGED <<locals, output_names, graph_outputs, eval_outputs,
                   inference_outputs, session_outputs, requested, rtVars,
                   lastCall, calls, histRest, error>>

\* Lines 269-284: the two loaders are built; nothing is read yet.
LoadData ==
    /\ pc = "load_data"
    /\ pc' = NextCell("load_data")
    /\ UNCHANGED <<locals, artVars, rtVars, lastCall, calls, histRest, error>>

(* ------------------------------------------------------------- cell "init" *)

\* Line 304: state = CheckpointState("data/checkpoint.ckpt").
LoadCheckpoint ==
    /\ pc = "init"
    /\ IF CheckpointFile \in files
       THEN \E ok \in BOOLEAN :
              IF ok
              THEN /\ state' = TRUE
                   /\ pc' = "init_module"
                   /\ Call("load", "none", TRUE)
                   /\ UNCHANGED <<locals, artVars, model, optimizer, mode,
                                  params, grad, histRest, error>>
              ELSE Fail("runtime", "load", "none")
       ELSE Fail("load", "load", "none")

\* Line 307: model = Module(training graph, state, eval graph).
CreateModule ==
    /\ pc = "init_module"
    /\ IF {TrainingFile, EvalFile} \subseteq files
       THEN \E ok \in BOOLEAN :
              IF ok
              THEN /\ model' = TRUE
                   /\ mode' = "train"
                   /\ pc' = "init_optimizer"
                   /\ Call("module", "none", TRUE)
                   /\ UNCHANGED <<locals, artVars, state, optimizer, params,
                                  grad, histRest, error>>
              ELSE Fail("runtime", "module", "none")
       ELSE Fail("load", "module", "none")

\* Line 310: optimizer = Optimizer(optimizer graph, model).
CreateOptimizer ==
    /\ pc = "init_optimizer"
    /\ IF OptimizerFile \in files
       THEN \E ok \in BOOLEAN :
              IF ok
              THEN /\ optimizer' = "Optimizer"
                   /\ pc' = NextCell("init")
                   /\ Call("optimizer", "none", TRUE)
                   /\ UNCHANGED <<locals, artVars, state, model, mode, params,
                                  grad, histRest, error>>
              ELSE Fail("runtime", "optimizer", "none")
       ELSE Fail("load", "optimizer", "none")

(* ------------------------------------------------------ cell "epoch_loop" *)

\* Line 377: for epoch in range(5).
EpochHead ==
    /\ pc = "epoch_loop"
    /\ IF epoch + 1 < NumEpochs
       THEN /\ epoch' = epoch + 1
            /\ returned' = [epoch |-> epoch + 1, train |-> <<>>, test |-> <<>>]
            /\ pc' = "train_enter"
       ELSE /\ pc' = NextCell("epoch_loop")
            /\ UNCHANGED <<epoch, returned>>
    /\ UNCHANGED <<fn, ip, batch_idx, it, losses, loss, logits, out, metric,
                   artVars, rtVars, lastCall, calls, resetsSinceStep, fwdDone,
                   lastFwdOk, lastStep, iters, fetched, paramsAtEntry, error>>

\* model.train() / model.eval(): the mode the Module is left in.
TrainModeSkipped(m) == m

TrainMode(m) == "train"

EvalMode(m) == "eval"

\* A function starts its batch loop: enumerate(loader) makes a new iterator.
StartLoop(f) ==
    /\ fn' = f
    /\ ip' = 0
    /\ losses' = NewLosses(losses)
    /\ it' = [loader |-> LoopLoader(f), pos |-> 0]
    /\ iters' = [iters EXCEPT ![<<f, LoopLoader(f)>>] = @ + 1]
    /\ paramsAtEntry' = params
    /\ pc' = "loop_iter"

\* Lines 378, 342-345: train(epoch) is entered.
TrainEnter ==
    /\ pc = "train_enter"
    /\ mode' = TrainMode(mode)
    /\ StartLoop("train")
    /\ UNCHANGED <<epoch, batch_idx, loss, logits, out, metric, artVars,
                   state, model, optimizer, params, grad, lastCall, calls,
                   resetsSinceStep, fwdDone, lastFwdOk, lastStep, returned,
                   fetched, error>>

\* Lines 379, 355-360: test(epoch) is entered.
TestEnter ==
    /\ pc = "test_enter"
    /\ mode' = EvalMode(mode)
    /\ metric' = [n |-> 0, hits |-> 0]
    /\ StartLoop("test")
    /\ UNCHANGED <<epoch, batch_idx, loss, logits, out, artVars, state, model,
                   optimizer, params, grad, lastCall, calls, resetsSinceStep,
                   fwdDone, lastFwdOk, lastStep, returned, fetched, error>>

\* The for statement of function f fetches the next batch, or ends the loop.
NextBatch(f) ==
    /\ pc = "loop_iter"
    /\ fn = f
    /\ IF it.pos < BatchesOf(it.loader)
       THEN /\ batch_idx' = it.pos
            /\ it' = [it EXCEPT !.pos = @ + 1]
            /\ fetched' = [fetched EXCEPT ![it.loader] = @ + 1]
            /\ ip' = 1
            /\ pc' = "loop_body"
       ELSE /\ pc' = "report"
            /\ UNCHANGED <<batch_idx, it, fetched, ip>>
    /\ UNCHANGED <<fn, epoch, losses, loss, logits, out, metric, artVars,
                   rtVars, lastCall, calls, resetsSinceStep, fwdDone,
                   lastFwdOk, lastStep, returned, iters, paramsAtEntry, error>>

\* Line 345.
TrainNextBatch == NextBatch("train")

\* Line 360.
TestNextBatch == NextBatch("test")

\* The statement of the loop body about to execute.
At(stmt) ==
    /\ pc = "loop_body"
    /\ ip \in 1..Len(Body(fn))
    /\ Body(fn)[ip] = stmt

\* Control moves to the body's next statement, or back to the for statement.
Advance ==
    IF ip < Len(Body(fn))
    THEN ip' = ip + 1 /\ pc' = "loop_body"
    ELSE ip' = 0 /\ pc' = "loop_iter"

\* model(forward_inputs) returns: forward, and backward too in train mode.
RunModule(l, hit) ==
    /\ loss' = l
    /\ logits' = hit
    /\ grad' = IF mode = "train" THEN "accumulated" ELSE grad
    /\ returned' = [returned EXCEPT
                      ![fn] = Append(@, [batch |-> <<it.loader, batch_idx>>,
                                         loss |-> l])]
    /\ Call("fwd", fn, TRUE)
    /\ Advance
    /\ UNCHANGED <<fn, epoch, batch_idx, it, losses, out, metric, artVars,
                   state, model, optimizer, mode, params, resetsSinceStep,
                   lastStep, iters, fetched, paramsAtEntry, error>>

\* Lines 346-347: train_loss, _ = model(forward_inputs).
TrainForward ==
    /\ At("fwd")
    /\ fn = "train"
    /\ \E ok \in BOOLEAN, l \in LossValues :
         IF ok
         THEN /\ RunModule(l, 0)
              /\ fwdDone' = fwdDone + 1
              /\ lastFwdOk' = <<epoch, batch_idx>>
         ELSE Fail("runtime", "fwd", fn)

\* Lines 361-362: test_loss, logits = model(forward_inputs).
TestForward ==
    /\ At("fwd")
    /\ fn = "test"
    /\ \E ok \in BOOLEAN, l \in LossValues, hit \in {0, 1} :
         IF ok
         THEN /\ RunModule(l, hit)
              /\ UNCHANGED <<fwdDone, lastFwdOk>>
         ELSE Fail("runtime", "fwd", fn)

\* Line 348: optimizer.step() applies the gradients to the parameters.
OptimizerStep ==
    /\ At("step")
    /\ \E ok \in BOOLEAN :
         IF ok
         THEN /\ params' = params + 1
              /\ grad' = "applied"
              /\ resetsSinceStep' = 0
              /\ lastStep' = <<epoch, batch_idx>>
              /\ Call("step", fn, TRUE)
              /\ Advance
              /\ UNCHANGED <<fn, epoch, batch_idx, it, losses, loss, logits,
                             out, metric, artVars, state, model, optimizer,
                             mode, fwdDone, lastFwdOk, returned, iters,
                             fetched, paramsAtEntry, error>>
         ELSE Fail("runtime", "step", fn)

\* Line 349: model.reset_grad().
ResetGrad ==
    /\ At("reset")
    /\ \E ok \in BOOLEAN :
         IF ok
         THEN /\ grad' = "clean"
              /\ resetsSinceStep' = resetsSinceStep + 1
              /\ Call("reset", fn, TRUE)
              /\ Advance
              /\ UNCHANGED <<fn, epoch, batch_idx, it, losses, loss, logits,
                             out, metric, artVars, state, model, optimizer,
                             mode, params, fwdDone, lastFwdOk, lastStep,
                             returned, iters, fetched, paramsAtEntry, error>>
         ELSE Fail("runtime", "reset", fn)

\* Line 363: metric.add_batch(references=target, predictions=get_pred(logits)).
MetricAddBatch ==
    /\ At("metric")
    /\ metric' = [n |-> metric.n + 1, hits |-> metric.hits + logits]
    /\ Advance
    /\ UNCHANGED <<fn, epoch, batch_idx, it, losses, loss, logits, out,
                   artVars, rtVars, lastCall, calls, histRest, error>>

\* losses.append(loss) in function f.
AppendLoss(f) ==
    /\ At("append")
    /\ fn = f
    /\ losses' = Append(losses, loss)
    /\ Advance
    /\ UNCHANGED <<fn, epoch, batch_idx, it, loss, logits, out, metric,
                   artVars, rtVars, lastCall, calls, histRest, error>>

\* Line 350.
TrainAppend == AppendLoss("train")

\* Line 364.
TestAppend == AppendLoss("test")

\* Line 352: print the epoch's train loss, sum(losses)/len(losses) (kept as
\* the fraction num/den; the line shows it to four decimals).
TrainReport ==
    /\ pc = "report"
    /\ fn = "train"
    /\ IF Len(losses) = 0
       THEN /\ Raise("zerodivision", "none", fn)
            /\ UNCHANGED <<fn, out>>
       ELSE /\ out' = [who |-> "train", epoch |-> epoch + 1,
                       num |-> SumSeq(losses), den |-> Len(losses),
                       hits |-> 0, total |-> 0]
            /\ fn' = "none"
            /\ pc' = "test_enter"
            /\ UNCHANGED error
    /\ UNCHANGED <<ip, epoch, batch_idx, it, losses, loss, logits, metric,
                   artVars, rtVars, lastCall, calls, histRest>>

\* Lines 366-367: metric.compute(), then print the epoch's test loss and
\* accuracy (hits/total).
TestReport ==
    /\ pc = "report"
    /\ fn = "test"
    /\ IF Len(losses) = 0
       THEN /\ Raise("zerodivision", "none", fn)
            /\ UNCHANGED <<fn, out>>
       ELSE /\ out' = [who |-> "test", epoch |-> epoch + 1,
                       num |-> SumSeq(losses), den |-> Len(losses),
                       hits |-> metric.hits, total |-> metric.n]
            /\ fn' = "none"
            /\ pc' = "epoch_loop"
            /\ UNCHANGED error
    /\ UNCHANGED <<ip, epoch, batch_idx, it, losses, loss, logits, metric,
                   artVars, rtVars, lastCall, calls, histRest>>

(* --------------------------------------------------------------- inference *)

\* Line 397: model.export_model_for_inferencing(path, ["output-0"]); a name
\* that is no output of the graph is a lookup error.
ExportInference ==
    /\ pc = "export_inference"
    /\ IF Range(ExportRequest) \subseteq Range(eval_outputs)
       THEN \E ok \in BOOLEAN :
              IF ok
              THEN /\ inference_outputs' = ExportRequest
                   /\ files' = files \cup {InferenceFile}
                   /\ pc' = "create_session"
                   /\ Call("export", "none", TRUE)
                   /\ UNCHANGED <<locals, output_names, graph_outputs,
                                  eval_outputs, session_outputs, requested,
                                  rtVars, histRest, error>>
              ELSE Fail("runtime", "export", "none")
       ELSE Fail("lookup", "export", "none")

\* Line 398: session = InferenceSession(path).
CreateSession ==
    /\ pc = "create_session"
    /\ IF InferenceFile \in files
       THEN \E ok \in BOOLEAN :
              IF ok
              THEN /\ session_outputs' = inference_outputs
                   /\ pc' = NextCell("export_inference")
                   /\ Call("session", "none", TRUE)
                   /\ UNCHANGED <<locals, files, output_names, graph_outputs,
                                  eval_outputs, inference_outputs, requested,
                                  rtVars, histRest, error>>
              ELSE Fail("runtime", "session", "none")
       ELSE Fail("load", "session", "none")

\* Line 408: data = next(iter(test_loader))[0][0].
TakeSample ==
    /\ pc = "run_inference"
    /\ iters' = [iters EXCEPT ![<<"inference", "test_loader">>] = @ + 1]
    /\ IF NumTestBatches > 0
       THEN /\ fetched' = [fetched EXCEPT !["test_loader"] = @ + 1]
            /\ pc' = "session_run"
            /\ UNCHANGED error
       ELSE /\ Raise("stopiteration", "none", "none")
            /\ UNCHANGED fetched
    /\ UNCHANGED <<locals, artVars, rtVars, lastCall, calls, resetsSinceStep,
                   fwdDone, lastFwdOk, lastStep, returned, paramsAtEntry>>

\* Lines 410-412: session.run([session.get_outputs()[0].name], ...); a name
\* that is no output of the session's graph is a lookup error.
RunInference ==
    /\ pc = "session_run"
    /\ IF session_outputs = <<>>
       THEN Fail("index", "run", "none") /\ UNCHANGED requested
       ELSE /\ requested' = <<session_outputs[1]>>
            /\ IF Range(requested') \subseteq Range(session_outputs)
               THEN \E ok \in BOOLEAN :
                      IF ok
                      THEN /\ pc' = NextCell("run_inference")
                           /\ Call("run", "none", TRUE)
                           /\ UNCHANGED <<locals, files, output_names,
                                          graph_outputs, eval_outputs,
                                          inference_outputs, session_outputs,
                                          rtVars, histRest, error>>
                      ELSE /\ Raise("runtime", "run", "none")
                           /\ Call("run", "none", FALSE)
                           /\ UNCHANGED <<locals, files, output_names,
                                          graph_outputs, eval_outputs,
                                          inference_outputs, session_outputs,
                                          rtVars, histRest>>
               ELSE /\ Raise("lookup", "run", "none")
                    /\ Call("run", "none", FALSE)
                    /\ UNCHANGED <<locals, files, output_names,
                                   graph_outputs, eval_outputs,
                                   inference_outputs, session_outputs,
                                   rtVars, histRest>>

Next ==
    \/ ExportForward
    \/ BuildGraphs
    \/ SaveArtifacts
    \/ LoadData
    \/ LoadCheckpoint
    \/ CreateModule
    \/ CreateOptimizer
    \/ EpochHead
    \/ TrainEnter
    \/ TrainNextBatch
    \/ TrainForward
    \/ OptimizerStep
    \/ ResetGrad
    \/ TrainAppend
    \/ TrainReport
    \/ TestEnter
    \/ TestNextBatch
    \/ TestForward
    \/ MetricAddBatch
    \/ TestAppend
    \/ TestReport
    \/ ExportInference
    \/ CreateSession
    \/ TakeSample
    \/ RunInference

Spec == Init /\ [][Next]_vars

(* ------------------------------------------------------------- properties *)

LossesOf(r) == [i \in 1..Len(r) |-> r[i].loss]
BatchesIn(r) == [i \in 1..Len(r) |-> r[i].batch]

\* C1: over the whole run, test() passes included, exactly one
\* model.reset_grad() call lies between any two consecutive optimizer.step()
\* calls: at every step call but the first, one reset has been made since
\* the step before, and never more than one is made before the next.
C1_OneResetBetweenSteps ==
    /\ resetsSinceStep <= 1
    /\ (lastCall.op = "step" /\ lastCall.steps >= 1) => lastCall.resets = 1

\* The first step of a later epoch, with a whole test() pass behind it.
C1_Witness ==
    /\ lastCall.op = "step"
    /\ lastCall.ok
    /\ lastCall.epoch = 1
    /\ lastCall.batch = 0
    /\ lastCall.steps = NumTrainBatches

\* C2: in train(), reset_grad comes strictly after the same batch's
\* optimizer.step() and strictly before the next batch's forward+backward:
\* a reset finds the gradients of its own batch applied, and a train-mode
\* forward never finds gradients that were applied and not yet reset.
C2_ResetAfterStepBeforeForward ==
    /\ (lastCall.op = "reset" /\ lastCall.who = "train") =>
          /\ lastStep = <<lastCall.epoch, lastCall.batch>>
          /\ lastCall.grad = "applied"
    /\ (lastCall.op = "fwd" /\ lastCall.mode = "train") =>
          /\ lastCall.grad = "clean"
          /\ lastCall.steps >= 1 => lastCall.resets = 1

\* A forward+backward of a batch that follows a stepped and reset batch.
C2_Witness ==
    /\ lastCall.op = "fwd"
    /\ lastCall.who = "train"
    /\ lastCall.ok
    /\ lastCall.batch = 1
    /\ lastCall.steps >= 1

\* C3: optimizer.step() is called only after the forward/backward call of
\* the same iteration has returned, the first step included, and every step
\* is matched to exactly one forward/backward pass.
C3_StepAfterForward ==
    /\ lastCall.op = "step" =>
          /\ lastFwdOk = <<lastCall.epoch, lastCall.batch>>
          /\ fwdDone = StepCalls
    /\ fwdDone - StepCalls \in {0, 1}

\* The first optimizer.step() of the run.
C3_Witness ==
    /\ lastCall.op = "step"
    /\ lastCall.steps = 0
    /\ lastCall.ok

\* C4: the checkpoint state is loaded, and the Module and Optimizer are
\* constructed from it, before any loop iteration: no model(...),
\* optimizer.step() or model.reset_grad() call is made without them.
C4_LoadedBeforeLoops ==
    /\ lastCall.op \in {"fwd", "step", "reset"} => lastCall.loaded
    /\ pc \in {"train_enter", "test_enter", "loop_iter", "loop_body",
               "report"} => Loaded
    /\ model => state
    /\ optimizer = "Optimizer" => model

\* The first forward call of the run.
C4_Witness ==
    /\ lastCall.op = "fwd"
    /\ lastCall.epoch = 0
    /\ lastCall.batch = 0
    /\ lastCall.loaded

\* C5: a runtime call that fails ends the run with the error: the failed
\* call is the last call made (no retry, no further batch, no later epoch,
\* test loop or export), and no optimizer.step() is made for a batch whose
\* forward/backward failed.
C5_FailureAborts ==
    /\ ~lastCall.ok => error.kind # "none"
    /\ error.kind # "none" =>
          /\ pc = "aborted"
          /\ ~lastCall.ok
          /\ lastCall.op = error.op
          /\ lastCall.who = error.who
          /\ <<lastCall.epoch, lastCall.batch>> = <<error.epoch, error.batch>>
          /\ calls[<<error.who, error.op>>] >= 1
          /\ (error.op = "fwd" /\ error.who = "train") =>
                lastStep # <<error.epoch, error.batch>>
          /\ (inference_outputs = <<>> \/ error.op \in {"session", "run"})
    /\ pc = "aborted" => ~ENABLED Next

\* A forward/backward that fails in a later batch of a later epoch.
C5_Witness ==
    /\ error.kind = "runtime"
    /\ error.op = "fwd"
    /\ error.who = "train"
    /\ error.epoch = 1
    /\ error.batch = 1

\* C6: for train() and test() alike, the epoch loss reported equals the
\* arithmetic mean of exactly the losses the runtime returned in that
\* epoch's loop, in order: the accumulator starts empty at every call and
\* holds one entry per batch when the loop ends.
C6_EpochMean ==
    /\ (pc = "loop_iter" /\ it.pos = 0) => losses = <<>>
    /\ (pc = "report" /\ fn \in {"train", "test"}) =>
          /\ losses = LossesOf(returned[fn])
          /\ Len(losses) = BatchesOf(it.loader)
    /\ (out.who \in {"train", "test"} /\ out.epoch = returned.epoch + 1) =>
          /\ out.den = Len(returned[out.who])
          /\ out.den = BatchesOf(LoopLoader(out.who))
          /\ out.num = SumSeq(LossesOf(returned[out.who]))

\* A test loss of a later epoch whose mean is not a whole number, after a
\* train() pass that returned other losses.
C6_Witness ==
    /\ out.who = "test"
    /\ out.epoch = 2
    /\ out.num = 1
    /\ out.den = NumTrainBatches
    /\ SumSeq(LossesOf(returned.train)) = NumTrainBatches

C8_OutputNames ==
    /\ error.kind # "lookup"
    /\ output_names # <<>> =>
          Range(ExportRequest) \subseteq Range(output_names)
    /\ pc = "export_inference" =>
          Range(ExportRequest) \subseteq Range(eval_outputs)
    /\ inference_outputs # <<>> => inference_outputs = ExportRequest
    /\ requested # <<>> =>
          /\ Range(requested) \subseteq Range(session_outputs)
          /\ requested = ExportRequest

\* The run ends with the export and the inference both done.
C8_Witness ==
    /\ pc = "done"
    /\ lastCall.op = "run"
    /\ lastCall.ok
    /\ requested = << OutputName(0) >>

\* C9: train() and test() both enumerate train_loader, batch for batch the
\* same sequence in every epoch; test_loader is never enumerated by either
\* loop and is read once, for the inference sample.
C9_SameLoader ==
    /\ iters[<<"train", "test_loader">>] = 0
    /\ iters[<<"test", "test_loader">>] = 0
    /\ iters[<<"inference", "train_loader">>] = 0
    /\ iters[<<"inference", "test_loader">>] <= 1
    /\ fetched["test_loader"] = iters[<<"inference", "test_loader">>]
    /\ lastCall.op = "fwd" => lastCall.loader = "train_loader"
    /\ (pc = "report" /\ fn = "test") =>
          BatchesIn(returned.test) = BatchesIn(returned.train)
    /\ pc = "done" => iters[<<"inference", "test_loader">>] = 1

\* The run has ended: every epoch's test() pass and the sample are behind.
C9_Witness ==
    /\ pc = "done"
    /\ iters[<<"test", "train_loader">>] = NumEpochs
    /\ iters[<<"train", "train_loader">>] = NumEpochs
    /\ fetched["test_loader"] = 1
    /\ Len(returned.test) = NumTrainBatches

\* C10: every forward and optimizer.step() call of train() is made in train
\* mode and every forward call of test() in eval mode, in the first epoch
\* and in those that follow a test() pass.
C10_ModePerLoop ==
    /\ (lastCall.who = "train" /\ lastCall.op \in {"fwd", "step"}) =>
          lastCall.mode = "train"
    /\ (lastCall.who = "test" /\ lastCall.op = "fwd") =>
          lastCall.mode = "eval"
    /\ fn = "train" => mode = "train"
    /\ fn = "test" => mode = "eval"

\* A train() forward in an epoch that follows a test() pass.
C10_Witness ==
    /\ lastCall.who = "train"
    /\ lastCall.op = "fwd"
    /\ lastCall.epoch = 1
    /\ calls[<<"test", "fwd">>] = NumTrainBatches

====
